---- MODULE Spec2Model ----
(***************************************************************************)
(* Ticket triage agent: the classification pipeline of app/classifier.py   *)
(* (classify_ticket and its helpers) and the persistence chain of          *)
(* app/firebase_client.py (Firestore first, local JSONL file second).      *)
(*                                                                         *)
(* Python strings are sequences of one-character strings, so that lower(), *)
(* strip(), split(), slicing and the `in` substring test are computed as   *)
(* Python computes them.  A Python value is a record [t, s, n]: its type   *)
(* tag, its characters when it is a str, its number (or length) otherwise. *)
(***************************************************************************)
EXTENDS Integers, Sequences, FiniteSets, TLC

VARIABLES
    KB,                    \* classifier.KB: the list load_kb() returned at import
    GROQ_API_KEY,          \* classifier.GROQ_API_KEY is set (TRUE) or missing
    ALLOW_LOCAL_FALLBACK,  \* firebase_client.ALLOW_LOCAL_FALLBACK
    localFile,             \* lines of data/ticket_results.jsonl, oldest first
    firestore,             \* the Firestore database: issue documents and tickets
    call,                  \* the classify_ticket call: inputs and outcome
    FIREBASE_APP,          \* firebase_client._FIREBASE_APP holds an app (TRUE) or None
    firebase_admin_apps,   \* firebase_admin._apps holds the default app
    credentials,           \* _credential_path() finds a credential file
    reachable,             \* Firestore accepts the writes of a client
    threads                \* concurrent persist calls: where each is, what it did

sequentialVars == <<KB, GROQ_API_KEY, ALLOW_LOCAL_FALLBACK, localFile, firestore, call>>

concurrentVars == <<FIREBASE_APP, firebase_admin_apps, credentials, reachable, threads>>

vars == <<sequentialVars, concurrentVars>>

(***************************************************************************)
(* Python str operations                                                   *)
(***************************************************************************)
UpperLetters ==
    <<"A","B","C","D","E","F","G","H","I","J","K","L","M",
      "N","O","P","Q","R","S","T","U","V","W","X","Y","Z">>

LowerLetters ==
    <<"a","b","c","d","e","f","g","h","i","j","k","l","m",
      "n","o","p","q","r","s","t","u","v","w","x","y","z">>

Whitespace == {" ", "\t", "\n", "\r"}

lower_char(c) ==
    IF \E i \in DOMAIN UpperLetters : UpperLetters[i] = c
    THEN LowerLetters[CHOOSE i \in DOMAIN UpperLetters : UpperLetters[i] = c]
    ELSE c

upper_char(c) ==
    IF \E i \in DOMAIN LowerLetters : LowerLetters[i] = c
    THEN UpperLetters[CHOOSE i \in DOMAIN LowerLetters : LowerLetters[i] = c]
    ELSE c

\* str.lower()
lower(s) == [i \in 1..Len(s) |-> lower_char(s[i])]

\* str.capitalize(): first character upper-cased, the rest lower-cased
capitalize(s) == [i \in 1..Len(s) |-> IF i = 1 THEN upper_char(s[i]) ELSE lower_char(s[i])]

\* str.strip(): leading and trailing whitespace removed
strip(s) ==
    LET keep == {i \in 1..Len(s) : s[i] \notin Whitespace}
    IN  IF keep = {} THEN <<>>
        ELSE SubSeq(s, CHOOSE i \in keep : \A j \in keep : i <= j,
                       CHOOSE i \in keep : \A j \in keep : i >= j)

\* " ".join(s.split()) on a stripped string: every whitespace run becomes one space
RECURSIVE collapse(_)
collapse(s) ==
    IF s = <<>> THEN <<>>
    ELSE IF Head(s) \in Whitespace
         THEN IF Len(s) > 1 /\ s[2] \in Whitespace
              THEN collapse(Tail(s))
              ELSE <<" ">> \o collapse(Tail(s))
         ELSE <<Head(s)>> \o collapse(Tail(s))

\* " ".join(s.split())
join_split(s) == collapse(strip(s))

\* sub in s
contains(sub, s) ==
    \E i \in 0..(Len(s) - Len(sub)) : \A j \in 1..Len(sub) : s[i + j] = sub[j]

\* s[:n]
slice_to(s, n) == IF Len(s) <= n THEN s ELSE SubSeq(s, 1, n)

(***************************************************************************)
(* Python values                                                           *)
(***************************************************************************)
PyNone == [t |-> "none", s |-> <<>>, n |-> 0]

\* a key that a dict does not have
Absent == [t |-> "absent", s |-> <<>>, n |-> 0]

Str(s) == [t |-> "str", s |-> s, n |-> 0]

Num(n) == [t |-> "num", s |-> <<>>, n |-> n]

\* a list of n items
List(n) == [t |-> "list", s |-> <<>>, n |-> n]

\* firestore.SERVER_TIMESTAMP
ServerTimestamp == [t |-> "server_timestamp", s |-> <<>>, n |-> 0]

\* the exception a call propagated instead of returning
Raised == [t |-> "raised", s |-> <<>>, n |-> 0]

\* bool(v)
Truthy(v) ==
    CASE v.t = "str" -> v.s # <<>>
      [] v.t = "num" -> v.n # 0
      [] v.t = "list" -> v.n > 0
      [] v.t = "server_timestamp" -> TRUE
      [] OTHER -> FALSE

\* a or b
Or(a, b) == IF Truthy(a) THEN a ELSE b

(***************************************************************************)
(* String literals of the source                                          *)
(***************************************************************************)
\* 'General'
S_General ==
    <<"G","e","n","e","r","a","l">>

\* 'Investigate and escalate to support.'
S_DefaultNextStep ==
    <<"I","n","v","e","s","t","i","g","a","t","e"," ","a","n","d"," ","e","s","c","a","l","a",
    "t","e"," ","t","o"," ","s","u","p","p","o","r","t",".">>

\* 'unknown-client'
S_UnknownClient ==
    <<"u","n","k","n","o","w","n","-","c","l","i","e","n","t">>

\* 'Groq+KB'
S_GroqKB ==
    <<"G","r","o","q","+","K","B">>

\* 'Groq'
S_Groq ==
    <<"G","r","o","q">>

\* 'Heuristics'
S_Heuristics ==
    <<"H","e","u","r","i","s","t","i","c","s">>

\* 'Critical'
S_Critical ==
    <<"C","r","i","t","i","c","a","l">>

\* 'High'
S_High ==
    <<"H","i","g","h">>

\* 'Medium'
S_Medium ==
    <<"M","e","d","i","u","m">>

\* 'Low'
S_Low ==
    <<"L","o","w">>

\* 'critical'
S_critical ==
    <<"c","r","i","t","i","c","a","l">>

\* 'blocker'
S_blocker ==
    <<"b","l","o","c","k","e","r">>

\* 'urgent'
S_urgent ==
    <<"u","r","g","e","n","t">>

\* 'high'
S_high ==
    <<"h","i","g","h">>

\* 'medium'
S_medium ==
    <<"m","e","d","i","u","m">>

\* 'low'
S_low ==
    <<"l","o","w">>

\* 'crash'
W_crash ==
    <<"c","r","a","s","h">>

\* 'down'
W_down ==
    <<"d","o","w","n">>

\* 'failed'
W_failed ==
    <<"f","a","i","l","e","d">>

\* 'cannot'
W_cannot ==
    <<"c","a","n","n","o","t">>

\* 'error'
W_error ==
    <<"e","r","r","o","r">>

\* 'not working'
W_not_working ==
    <<"n","o","t"," ","w","o","r","k","i","n","g">>

\* 'system is unavailable'
W_unavailable ==
    <<"s","y","s","t","e","m"," ","i","s"," ","u","n","a","v","a","i","l","a","b","l","e">>

\* 'slow'
W_slow ==
    <<"s","l","o","w">>

\* 'request'
W_request ==
    <<"r","e","q","u","e","s","t">>

\* 'question'
W_question ==
    <<"q","u","e","s","t","i","o","n">>

\* 'NEW_ISSUES'
S_NEW_ISSUES ==
    <<"N","E","W","_","I","S","S","U","E","S">>

\* 'auto_generated'
S_auto_generated ==
    <<"a","u","t","o","_","g","e","n","e","r","a","t","e","d">>

\* 'knowledge_base'
S_knowledge_base ==
    <<"k","n","o","w","l","e","d","g","e","_","b","a","s","e">>

\* 'Untitled issue'
S_Untitled ==
    <<"U","n","t","i","t","l","e","d"," ","i","s","s","u","e">>

\* 'Investigate'
S_Investigate ==
    <<"I","n","v","e","s","t","i","g","a","t","e">>

(***************************************************************************)
(* The knowledge base file, ticket texts and model replies checked         *)
(***************************************************************************)
\* 'ISSUE-001'
K1_id ==
    <<"I","S","S","U","E","-","0","0","1">>

\* 'Payment gateway failure'
K1_title ==
    <<"P","a","y","m","e","n","t"," ","g","a","t","e","w","a","y"," ","f","a","i","l","u","r",
    "e">>

\* 'Payment'
K1_category ==
    <<"P","a","y","m","e","n","t">>

\* 'payment failed'
K1_sym1 ==
    <<"p","a","y","m","e","n","t"," ","f","a","i","l","e","d">>

\* 'error 500'
K1_sym2 ==
    <<"e","r","r","o","r"," ","5","0","0">>

\* 'Check the payment gateway status and retry.'
K1_action ==
    <<"C","h","e","c","k"," ","t","h","e"," ","p","a","y","m","e","n","t"," ","g","a","t","e",
    "w","a","y"," ","s","t","a","t","u","s"," ","a","n","d"," ","r","e","t","r","y",".">>

\* 'ISSUE-002'
K2_id ==
    <<"I","S","S","U","E","-","0","0","2">>

\* 'Login failure'
K2_title ==
    <<"L","o","g","i","n"," ","f","a","i","l","u","r","e">>

\* 'Authentication'
K2_category ==
    <<"A","u","t","h","e","n","t","i","c","a","t","i","o","n">>

\* 'cannot login'
K2_sym1 ==
    <<"c","a","n","n","o","t"," ","l","o","g","i","n">>

\* 'Reset the user password.'
K2_action ==
    <<"R","e","s","e","t"," ","t","h","e"," ","u","s","e","r"," ","p","a","s","s","w","o","r",
    "d",".">>

\* 'ISSUE-003'
K3_id ==
    <<"I","S","S","U","E","-","0","0","3">>

\* 'Slow dashboard'
K3_title ==
    <<"S","l","o","w"," ","d","a","s","h","b","o","a","r","d">>

\* 'Performance'
K3_category ==
    <<"P","e","r","f","o","r","m","a","n","c","e">>

\* 'dashboard is slow'
K3_sym1 ==
    <<"d","a","s","h","b","o","a","r","d"," ","i","s"," ","s","l","o","w">>

\* 'Timeout'
K3_sym2 ==
    <<"T","i","m","e","o","u","t">>

\* 'Scale up the reporting service.'
K3_action ==
    <<"S","c","a","l","e"," ","u","p"," ","t","h","e"," ","r","e","p","o","r","t","i","n","g",
    " ","s","e","r","v","i","c","e",".">>

\* 'Payment failed with error 500 during checkout'
T_payment ==
    <<"P","a","y","m","e","n","t"," ","f","a","i","l","e","d"," ","w","i","t","h"," ","e","r",
    "r","o","r"," ","5","0","0"," ","d","u","r","i","n","g"," ","c","h","e","c","k","o","u",
    "t">>

\* 'the app is slow today'
T_slow ==
    <<"t","h","e"," ","a","p","p"," ","i","s"," ","s","l","o","w"," ","t","o","d","a","y">>

\* 'Error 500 when I open the reports page'
T_tie ==
    <<"E","r","r","o","r"," ","5","0","0"," ","w","h","e","n"," ","I"," ","o","p","e","n"," ",
    "t","h","e"," ","r","e","p","o","r","t","s"," ","p","a","g","e">>

\* 'Cannot login: error 500 then a TIMEOUT'
T_login ==
    <<"C","a","n","n","o","t"," ","l","o","g","i","n",":"," ","e","r","r","o","r"," ","5","0",
    "0"," ","t","h","e","n"," ","a"," ","T","I","M","E","O","U","T">>

\* 'Customer asks how to update the billing address that is shown on the monthly invoice'
T_long ==
    <<"C","u","s","t","o","m","e","r"," ","a","s","k","s"," ","h","o","w"," ","t","o"," ","u",
    "p","d","a","t","e"," ","t","h","e"," ","b","i","l","l","i","n","g"," ","a","d","d","r","e",
    "s","s"," ","t","h","a","t"," ","i","s"," ","s","h","o","w","n"," ","o","n"," ","t","h","e",
    " ","m","o","n","t","h","l","y"," ","i","n","v","o","i","c","e">>

\* '  Card   declined\n at checkout '
L_summary ==
    <<" "," ","C","a","r","d"," "," "," ","d","e","c","l","i","n","e","d","\n"," ","a","t"," ",
    "c","h","e","c","k","o","u","t"," ">>

\* 'Card declined at checkout'
L_summary_clean ==
    <<"C","a","r","d"," ","d","e","c","l","i","n","e","d"," ","a","t"," ","c","h","e","c","k",
    "o","u","t">>

\* ' \n '
L_blank ==
    <<" ","\n"," ">>

\* 'Billing'
L_category ==
    <<"B","i","l","l","i","n","g">>

\* 'Refund the customer.'
L_next_step ==
    <<"R","e","f","u","n","d"," ","t","h","e"," ","c","u","s","t","o","m","e","r",".">>

\* 'Card declined'
L_title ==
    <<"C","a","r","d"," ","d","e","c","l","i","n","e","d">>

\* ' URGENT'
L_sev_urgent ==
    <<" ","U","R","G","E","N","T">>

\* 'sev1'
L_sev_sev1 ==
    <<"s","e","v","1">>

\* 'Critical'
L_sev_Critical ==
    <<"C","r","i","t","i","c","a","l">>

\* ' '
L_sev_space ==
    <<" ">>

\* 'NEW_ISSUE'
L_id_new ==
    <<"N","E","W","_","I","S","S","U","E">>

\* ' issue-002 '
L_id_2 ==
    <<" ","i","s","s","u","e","-","0","0","2"," ">>

\* 'ISSUE-999'
L_id_unknown ==
    <<"I","S","S","U","E","-","9","9","9">>

\* 'oops'
L_text ==
    <<"o","o","p","s">>

\* 'Timeout while saving'
T_timeout ==
    <<"T","i","m","e","o","u","t"," ","w","h","i","l","e"," ","s","a","v","i","n","g">>

\* 'PAYMENT FAILED AGAIN'
T_upper ==
    <<"P","A","Y","M","E","N","T"," ","F","A","I","L","E","D"," ","A","G","A","I","N">>

\* 'dashboard is slow after payment failed'
T_two ==
    <<"d","a","s","h","b","o","a","r","d"," ","i","s"," ","s","l","o","w"," ","a","f","t","e",
    "r"," ","p","a","y","m","e","n","t"," ","f","a","i","l","e","d">>

\* ' high\n'
P_sev_high ==
    <<" ","h","i","g","h","\n">>

\* 'CRITICAL'
P_sev_CRITICAL ==
    <<"C","R","I","T","I","C","A","L">>

\* 'lOW'
P_sev_lOW ==
    <<"l","O","W">>

\* '{"severity": "High"}'
J_double ==
    <<"{","\"","s","e","v","e","r","i","t","y","\"",":"," ","\"","H","i","g","h","\"","}">>

\* " {'severity':\n'High', }\n"
J_single ==
    <<" ","{","'","s","e","v","e","r","i","t","y","'",":","\n","'","H","i","g","h","'",","," ",
    "}","\n">>

\* 'Severity: High'
J_garbage ==
    <<"S","e","v","e","r","i","t","y",":"," ","H","i","g","h">>

\* 'test-client'
C_test_client ==
    <<"t","e","s","t","-","c","l","i","e","n","t">>

\* '2024-01-01T00:00:00+00:00'
S_NowIso ==
    <<"2","0","2","4","-","0","1","-","0","1","T","0","0",":","0","0",":","0","0","+","0","0",
    ":","0","0">>

(***************************************************************************)
(* Knowledge base (app/classifier.py)                                      *)
(***************************************************************************)
\* data/knowledge_base.json as json.load returns it
KB_DATA ==
    << [id |-> K1_id, title |-> K1_title, category |-> K1_category,
        symptoms |-> <<K1_sym1, K1_sym2>>, recommended_action |-> K1_action],
       [id |-> K2_id, title |-> K2_title, category |-> K2_category,
        symptoms |-> <<K2_sym1, K1_sym2>>, recommended_action |-> K2_action],
       [id |-> K3_id, title |-> K3_title, category |-> K3_category,
        symptoms |-> <<K3_sym1, K3_sym2>>, recommended_action |-> K3_action] >>

\* load_kb(): the parsed file, or [] when the file is missing or corrupt
load_kb(readable) == IF readable THEN KB_DATA ELSE <<>>

\* the states data/knowledge_base.json can be in: a JSON list of entries,
\* no file, a file that is not JSON
KbFiles == {"present", "missing", "corrupt"}

\* load_kb of app/kb_loader.py: [raised, kb]; FileNotFoundError when the file
\* is missing (line 15), the JSONDecodeError of json.load when it is corrupt
kb_loader_load_kb(file) ==
    IF file = "present" THEN [raised |-> FALSE, kb |-> KB_DATA]
    ELSE [raised |-> TRUE, kb |-> <<>>]

\* _get_kb_entry_by_id: the index in kb of the first entry whose id matches
\* (case-insensitive, stripped), 0 for None, -1 when issue_id.strip() raises
\* AttributeError because issue_id is truthy and not a str
get_kb_entry_by_id(issue_id, kb) ==
    IF ~Truthy(issue_id) THEN 0
    ELSE IF issue_id.t # "str" THEN -1
    ELSE LET normalized == strip(issue_id.s)
             hits == {i \in DOMAIN kb : lower(strip(kb[i].id)) = lower(normalized)}
         IN  IF hits = {} THEN 0 ELSE CHOOSE i \in hits : \A j \in hits : i <= j

\* the inner loop of _find_kb_entry: symptoms of entry present in the lowered text
symptom_score(entry, text) ==
    Cardinality({j \in DOMAIN entry.symptoms : contains(lower(entry.symptoms[j]), text)})

\* the outer loop of _find_kb_entry from entry i on
RECURSIVE find_kb_loop(_, _, _, _, _)
find_kb_loop(kb, text, i, best_match, best_score) ==
    IF i > Len(kb) THEN [best_match |-> best_match, best_score |-> best_score]
    ELSE LET score == symptom_score(kb[i], text)
         IN  IF score > best_score
             THEN find_kb_loop(kb, text, i + 1, i, score)
             ELSE find_kb_loop(kb, text, i + 1, best_match, best_score)

\* the outer loop with >= for >: a later entry of equal score replaces the best
RECURSIVE find_kb_loop_last_wins(_, _, _, _, _)
find_kb_loop_last_wins(kb, text, i, best_match, best_score) ==
    IF i > Len(kb) THEN [best_match |-> best_match, best_score |-> best_score]
    ELSE LET score == symptom_score(kb[i], text)
         IN  IF score >= best_score
             THEN find_kb_loop_last_wins(kb, text, i + 1, i, score)
             ELSE find_kb_loop_last_wins(kb, text, i + 1, best_match, best_score)

\* _find_kb_entry over the loop that lets the last of equal entries win
find_kb_entry_last_wins(text, kb) ==
    LET r == find_kb_loop_last_wins(kb, lower(text), 1, 0, 0)
    IN  IF r.best_score > 0 THEN r.best_match ELSE 0

\* _find_kb_entry without line 80: the text is compared as written
find_kb_entry_no_lower(text, kb) ==
    LET r == find_kb_loop(kb, text, 1, 0, 0)
    IN  IF r.best_score > 0 THEN r.best_match ELSE 0

\* _find_kb_entry: index of the best matching entry, 0 for None
find_kb_entry(text, kb) ==
    LET r == find_kb_loop(kb, lower(text), 1, 0, 0)
    IN  IF r.best_score > 0 THEN r.best_match ELSE 0

(***************************************************************************)
(* Severity helpers and summary clean-up                                   *)
(***************************************************************************)
\* mapping.get(value, "Medium")
severity_mapping(value) ==
    CASE value = S_critical -> S_Critical
      [] value = S_blocker -> S_Critical
      [] value = S_urgent -> S_High
      [] value = S_high -> S_High
      [] value = S_medium -> S_Medium
      [] value = S_low -> S_Low
      [] OTHER -> S_Medium

\* _normalize_severity without the strip()
normalize_severity_no_strip(value) ==
    IF ~Truthy(value) THEN PyNone
    ELSE IF value.t # "str" THEN Raised
    ELSE Str(severity_mapping(lower(value.s)))

\* _normalize_severity with mapping.get(value, value): an unknown word is kept
normalize_severity_keeps_unknown(value) ==
    IF ~Truthy(value) THEN PyNone
    ELSE IF value.t # "str" THEN Raised
    ELSE LET word == strip(lower(value.s))
         IN  IF severity_mapping(word) = S_Medium /\ word # S_medium THEN Str(word)
             ELSE Str(severity_mapping(word))

\* _normalize_severity; Raised when value.lower() raises AttributeError
normalize_severity(value) ==
    IF ~Truthy(value) THEN PyNone
    ELSE IF value.t # "str" THEN Raised
    ELSE Str(severity_mapping(strip(lower(value.s))))

HighWords == {W_crash, W_down, W_failed, W_cannot, W_error, W_not_working, W_unavailable}

\* _infer_severity
infer_severity(text) ==
    LET lowered == lower(text)
    IN  IF \E w \in HighWords : contains(w, lowered) THEN S_High
        ELSE IF contains(W_slow, lowered) \/ contains(W_request, lowered)
                \/ contains(W_question, lowered) THEN S_Low
        ELSE S_Medium

\* _correct_summary that only strips and leaves inner whitespace runs alone
correct_summary_strip_only(summary) ==
    IF ~Truthy(summary) THEN PyNone
    ELSE IF summary.t # "str" THEN Raised
    ELSE Or(Str(strip(summary.s)), PyNone)

\* _correct_summary; Raised when summary.split() raises AttributeError
correct_summary(summary) ==
    IF ~Truthy(summary) THEN PyNone
    ELSE IF summary.t # "str" THEN Raised
    ELSE LET cleaned == join_split(summary.s)
         IN  Or(Str(strip(cleaned)), PyNone)

(***************************************************************************)
(* The value _llm_classification returns: whatever json.loads produced     *)
(***************************************************************************)
LlmKeys == {"summary", "category", "severity", "kb_issue_id", "kb_issue_title", "next_step"}

\* {}
EmptyDict ==
    [t |-> "dict", s |-> <<>>, n |-> 0,
     summary |-> Absent, category |-> Absent, severity |-> Absent,
     kb_issue_id |-> Absent, kb_issue_title |-> Absent, next_step |-> Absent]

\* a JSON value that is not an object: a list, a string, a number, null
NonDict(v) == [EmptyDict EXCEPT !.t = v.t, !.s = v.s, !.n = v.n]

\* bool(llm_result)
llm_truthy(llm) ==
    IF llm.t = "dict" THEN \E k \in LlmKeys : llm[k].t # "absent"
    ELSE Truthy([t |-> llm.t, s |-> llm.s, n |-> llm.n])

\* llm_result.get(key)
dict_get(llm, key) == IF llm[key].t = "absent" THEN PyNone ELSE llm[key]

(***************************************************************************)
(* classify_ticket, lines 268-308: the result dict it builds               *)
(***************************************************************************)
\* a dict with none of the keys the pipeline writes
EmptyDoc ==
    [client_id |-> Absent, summary |-> Absent, full_summary |-> Absent,
     full_text |-> Absent, category |-> Absent, severity |-> Absent,
     kb_match |-> Absent, next_step |-> Absent, analysis_source |-> Absent,
     llm_raw |-> EmptyDict, original_input |-> Absent, kb_source |-> Absent,
     ticket |-> Absent, created_at |-> Absent]

\* line 306 with the knowledge-base id left out of the test
analysis_source_ignores_kb(llm_result, kb_id) ==
    IF llm_truthy(llm_result) THEN S_Groq ELSE S_Heuristics

\* the analysis_source expression of line 306
analysis_source(llm_result, kb_id) ==
    IF llm_truthy(llm_result) /\ Truthy(kb_id) THEN S_GroqKB
    ELSE IF llm_truthy(llm_result) THEN S_Groq
    ELSE S_Heuristics

\* lines 271-273 without the fall back to _find_kb_entry
select_kb_llm_only(text, llm_result, kb) ==
    get_kb_entry_by_id(
        IF llm_truthy(llm_result) THEN dict_get(llm_result, "kb_issue_id") ELSE PyNone, kb)

\* lines 271-273 with the two lookups in the other order
select_kb_keyword_first(text, llm_result, kb) ==
    LET by_text == find_kb_entry(text, kb)
    IN  IF by_text # 0 THEN by_text
        ELSE get_kb_entry_by_id(
                IF llm_truthy(llm_result)
                THEN dict_get(llm_result, "kb_issue_id") ELSE PyNone, kb)

\* the KB entry chosen at lines 271-273: index in kb, 0 for None, -1 on a raise
select_kb(text, llm_result, kb) ==
    LET by_id == get_kb_entry_by_id(
                    IF llm_truthy(llm_result)
                    THEN dict_get(llm_result, "kb_issue_id") ELSE PyNone, kb)
    IN  IF by_id # 0 THEN by_id ELSE find_kb_entry(text, kb)

\* lines 268-308: [raised, result]; raised when an AttributeError leaves the function
build_result(text, client_id, llm_result, kb) ==
    LET has_llm == llm_truthy(llm_result)
        not_a_dict == has_llm /\ llm_result.t # "dict"
        field(key) == IF has_llm THEN dict_get(llm_result, key) ELSE PyNone
        entry == select_kb(text, llm_result, kb)
        kb_id == IF entry > 0 THEN Str(kb[entry].id) ELSE PyNone
        kb_category == IF entry > 0 THEN Str(kb[entry].category) ELSE PyNone
        kb_title == IF entry > 0 THEN Str(kb[entry].title) ELSE PyNone
        kb_action == IF entry > 0 THEN Str(kb[entry].recommended_action) ELSE PyNone
        llm_summary == field("summary")
        corrected_summary ==
            IF Truthy(llm_summary) THEN correct_summary(llm_summary) ELSE PyNone
        summary == Or(Or(corrected_summary, kb_title), Str(slice_to(text, 80)))
        category == Or(Or(field("category"), kb_category), Str(S_General))
        normalized == IF has_llm THEN normalize_severity(dict_get(llm_result, "severity"))
                      ELSE PyNone
        severity == Or(normalized, Str(infer_severity(text)))
        next_step == Or(Or(field("next_step"), kb_action), Str(S_DefaultNextStep))
        raised == not_a_dict \/ entry = -1 \/ corrected_summary = Raised
                  \/ normalized = Raised
    IN  IF raised THEN [raised |-> TRUE, result |-> EmptyDoc]
        ELSE [raised |-> FALSE,
              result |-> [EmptyDoc EXCEPT
                            !.client_id = Or(client_id, Str(S_UnknownClient)),
                            !.summary = summary,
                            !.full_summary = corrected_summary,
                            !.full_text = Str(text),
                            !.category = category,
                            !.severity = severity,
                            !.kb_match = kb_id,
                            !.next_step = next_step,
                            !.analysis_source = Str(analysis_source(llm_result, kb_id)),
                            !.llm_raw = llm_result]]

(***************************************************************************)
(* Persistence (app/firebase_client.py)                                    *)
(***************************************************************************)
\* what one attempt on Firestore can do: succeed; get no client (no SDK, no
\* credentials, initialisation failed); raise at issue_ref.set; raise at
\* severity_collection.add
FirestoreOutcomes == {"ok", "no_client", "set_error", "add_error"}

EmptyFirestore == [issues |-> {}, tickets |-> <<>>]

\* _build_payload; now is datetime.now(timezone.utc).isoformat()
build_payload(ticket_text, classification, now) ==
    [classification EXCEPT
        !.ticket = IF @ = Absent THEN Str(ticket_text) ELSE @,
        !.client_id = IF @ = Absent THEN Str(S_UnknownClient) ELSE @,
        !.created_at = Str(now)]

\* _severity_bucket without capitalize(): only a severity written exactly as a
\* bucket name is recognized
severity_bucket_no_capitalize(severity) ==
    IF ~Truthy(severity) THEN Str(S_Medium)
    ELSE IF severity.t # "str" THEN Raised
    ELSE LET normalized == strip(severity.s)
         IN  IF normalized \notin {S_Low, S_Medium, S_High, S_Critical}
             THEN Str(S_Medium) ELSE Str(normalized)

\* _severity_bucket; Raised when severity.strip() raises AttributeError
severity_bucket(severity) ==
    IF ~Truthy(severity) THEN Str(S_Medium)
    ELSE IF severity.t # "str" THEN Raised
    ELSE LET normalized == capitalize(strip(severity.s))
         IN  IF normalized \notin {S_Low, S_Medium, S_High, S_Critical}
             THEN Str(S_Medium) ELSE Str(normalized)

\* classification.get(key, default)
get_or(classification, key, default) ==
    IF classification[key] = Absent THEN Str(default) ELSE classification[key]

\* lines 92-102: the classification dict after the issue id is chosen
with_issue_id(classification) ==
    IF Truthy(classification.kb_match) THEN classification
    ELSE [classification EXCEPT !.kb_match = Str(S_NEW_ISSUES),
                                !.kb_source = Str(S_auto_generated)]

\* lines 107-117: the issue-level document
issue_metadata(doc_id, classification) ==
    [doc_id |-> doc_id,
     issue_id |-> classification.kb_match,
     title |-> get_or(classification, "summary", S_Untitled),
     category |-> get_or(classification, "category", S_General),
     recommended_action |-> get_or(classification, "next_step", S_Investigate),
     source |-> get_or(classification, "kb_source", S_knowledge_base),
     updated_at |-> ServerTimestamp]

\* issue_ref.set(issue_metadata, merge=True): every field is given, so the
\* document of that id is created or overwritten
set_merge(issues, metadata) ==
    {d \in issues : d.doc_id # metadata.doc_id} \cup {metadata}

\* _persist_to_firestore: [ok, classification, firestore]; classification is the
\* caller's dict, which lines 101-102 write into
persist_to_firestore(payload, classification, outcome, db) ==
    IF outcome = "no_client"
    THEN [ok |-> FALSE, classification |-> classification, firestore |-> db]
    ELSE LET marked == with_issue_id(classification)
             doc_id == marked.kb_match.s
             bucket == severity_bucket(marked.severity)
             upserted == [db EXCEPT !.issues = set_merge(@, issue_metadata(doc_id, marked))]
             ticket == [issue |-> doc_id, severity |-> bucket.s,
                        doc |-> [payload EXCEPT !.created_at = ServerTimestamp]]
         IN  IF outcome = "set_error"
             THEN [ok |-> FALSE, classification |-> marked, firestore |-> db]
             ELSE IF outcome = "add_error" \/ bucket = Raised
             THEN [ok |-> FALSE, classification |-> marked, firestore |-> upserted]
             ELSE [ok |-> TRUE, classification |-> marked,
                   firestore |-> [upserted EXCEPT !.tickets = Append(@, ticket)]]

\* _persist_locally opening the file with mode "w" instead of "a"
persist_locally_truncates(payload, writable, file) ==
    IF writable THEN [ok |-> TRUE, file |-> <<payload>>]
    ELSE [ok |-> FALSE, file |-> file]

\* _persist_locally: [ok, file]; writable is whether mkdir, open and write succeed
persist_locally(payload, writable, file) ==
    IF writable THEN [ok |-> TRUE, file |-> Append(file, payload)]
    ELSE [ok |-> FALSE, file |-> file]

\* firebase_client.save_ticket_result without the ALLOW_LOCAL_FALLBACK test
save_ticket_to_firestore_always_local(ticket_text, classification, allow, outcome, writable, db, file) ==
    LET payload == build_payload(ticket_text, classification, S_NowIso)
        primary == persist_to_firestore(payload, classification, outcome, db)
        local == persist_locally(payload, writable, file)
    IN  IF primary.ok
        THEN [outcome |-> "true", classification |-> primary.classification,
              firestore |-> primary.firestore, file |-> file, local |-> "not_tried"]
        ELSE [outcome |-> IF local.ok THEN "true" ELSE "false",
              classification |-> primary.classification,
              firestore |-> primary.firestore, file |-> local.file,
              local |-> IF local.ok THEN "written" ELSE "failed"]

\* firebase_client.save_ticket_result: outcome is "true", "false" or "raised"
\* (RuntimeError); classification is the caller's dict after the call; local is
\* what became of the local append
save_ticket_to_firestore(ticket_text, classification, allow, outcome, writable, db, file) ==
    LET payload == build_payload(ticket_text, classification, S_NowIso)
        primary == persist_to_firestore(payload, classification, outcome, db)
        local == persist_locally(payload, writable, file)
    IN  IF primary.ok
        THEN [outcome |-> "true", classification |-> primary.classification,
              firestore |-> primary.firestore, file |-> file, local |-> "not_tried"]
        ELSE IF ~allow
        THEN [outcome |-> "raised", classification |-> primary.classification,
              firestore |-> primary.firestore, file |-> file, local |-> "not_tried"]
        ELSE [outcome |-> IF local.ok THEN "true" ELSE "false",
              classification |-> primary.classification,
              firestore |-> primary.firestore, file |-> local.file,
              local |-> IF local.ok THEN "written" ELSE "failed"]

\* save_ticket_result without its try/except: the RuntimeError of
\* firebase_client leaves classify_ticket
save_ticket_result_unguarded(ticket_text, classification, allow, outcome, writable, db, file) ==
    LET payload == [classification EXCEPT
                       !.original_input = IF @ = Absent THEN Str(ticket_text) ELSE @]
        saved == save_ticket_to_firestore(ticket_text, payload, allow, outcome,
                                          writable, db, file)
    IN  [raised |-> saved.outcome = "raised", persist |-> saved.outcome,
         classification |-> classification,
         firestore |-> saved.firestore, file |-> saved.file, local |-> saved.local]

\* save_ticket_result handing its own argument on instead of a new dict: what
\* firebase_client writes into the dict shows in the caller's result
save_ticket_result_shares_dict(ticket_text, classification, allow, outcome, writable, db, file) ==
    LET saved == save_ticket_to_firestore(ticket_text, classification, allow, outcome,
                                          writable, db, file)
    IN  [raised |-> FALSE, persist |-> saved.outcome,
         classification |-> saved.classification,
         firestore |-> saved.firestore, file |-> saved.file, local |-> saved.local]

\* classifier.save_ticket_result: [raised, persist, classification, firestore, file];
\* the dict handed on is a new one, {"original_input": ..., **classification}, and
\* the except clause swallows whatever firebase_client raises
save_ticket_result(ticket_text, classification, allow, outcome, writable, db, file) ==
    LET payload == [classification EXCEPT
                       !.original_input = IF @ = Absent THEN Str(ticket_text) ELSE @]
        saved == save_ticket_to_firestore(ticket_text, payload, allow, outcome,
                                          writable, db, file)
    IN  [raised |-> FALSE, persist |-> saved.outcome, classification |-> classification,
         firestore |-> saved.firestore, file |-> saved.file, local |-> saved.local]

(***************************************************************************)
(* The Groq gateway                                                        *)
(***************************************************************************)
\* what the request of _llm_classification can come to: a reply with content
\* ("ok"), requests.post raising, raise_for_status raising, r.json() raising,
\* a body without choices, a choice without a str content
ReplyStatuses ==
    {"ok", "transport_error", "http_error", "bad_body", "no_choices", "no_content"}

\* text.replace(old, new) for one-character old and new
replace_char(s, old, new) == [i \in 1..Len(s) |-> IF s[i] = old THEN new ELSE s[i]]

\* the end of the whitespace run \s* that starts at position i
RECURSIVE skip_whitespace(_, _)
skip_whitespace(s, i) ==
    IF i <= Len(s) /\ s[i] \in Whitespace THEN skip_whitespace(s, i + 1) ELSE i

\* re.sub(r",\s*}", "}", s) and re.sub(r",\s*]", "]", s), from position i on
RECURSIVE sub_trailing_comma(_, _, _)
sub_trailing_comma(s, closer, i) ==
    IF i > Len(s) THEN <<>>
    ELSE LET j == skip_whitespace(s, i + 1)
         IN  IF s[i] = "," /\ j <= Len(s) /\ s[j] = closer
             THEN <<closer>> \o sub_trailing_comma(s, closer, j + 1)
             ELSE <<s[i]>> \o sub_trailing_comma(s, closer, i + 1)

\* the cleanup of _repair_json, lines 145-150
repair_cleaned(text) ==
    LET quoted == replace_char(replace_char(text, "'", "\""), "\n", " ")
    IN  sub_trailing_comma(sub_trailing_comma(quoted, "}", 1), "]", 1)

\* json.loads on the spelled-out texts: the JSON documents among them
JsonTexts == {J_double}

\* json.loads(text) for text in JsonTexts
json_loads(text) == [EmptyDict EXCEPT !.severity = Str(S_High)]

\* _repair_json on the stripped content of a reply: a content json.loads
\* accepts gives its value; any other is cleaned and parsed once more
repair_json(reply) ==
    IF reply.valid THEN reply.parsed
    ELSE LET raw == strip(reply.text)
             cleaned == repair_cleaned(raw)
         IN  IF raw \in JsonTexts THEN json_loads(raw)
             ELSE IF cleaned \in JsonTexts THEN json_loads(cleaned)
             ELSE EmptyDict

\* the try block of _llm_classification, lines 216-226: the exception it ends
\* with ("none" when it returns) and the value it returns
llm_try(reply) ==
    CASE reply.status = "transport_error" -> [exc |-> "ConnectionError", value |-> EmptyDict]
      [] reply.status = "http_error" -> [exc |-> "HTTPError", value |-> EmptyDict]
      [] reply.status = "bad_body" -> [exc |-> "JSONDecodeError", value |-> EmptyDict]
      [] reply.status = "no_choices" -> [exc |-> "none", value |-> EmptyDict]
      [] reply.status = "no_content" -> [exc |-> "KeyError", value |-> EmptyDict]
      [] OTHER -> [exc |-> "none", value |-> repair_json(reply)]

\* the exceptions requests.exceptions.RequestException covers
RequestExceptions == {"HTTPError", "ConnectionError", "JSONDecodeError"}

\* the exceptions the except clauses of lines 228-236 catch
CaughtExceptions == RequestExceptions \cup {"KeyError"}

\* _llm_classification without the catch-all clause of lines 234-236
llm_classification_no_catch_all(has_key, reply) ==
    IF ~has_key THEN [raised |-> FALSE, requests |-> 0, value |-> EmptyDict]
    ELSE LET r == llm_try(reply)
         IN  [raised |-> r.exc \notin RequestExceptions \cup {"none"},
              requests |-> 1,
              value |-> IF r.exc = "none" THEN r.value ELSE EmptyDict]

\* _llm_classification: {} without a key (no request is made) or on any
\* failure, else what _repair_json made of the reply's content; with the
\* number of requests.post calls and whether an exception leaves the function
llm_classification(has_key, reply) ==
    IF ~has_key THEN [raised |-> FALSE, requests |-> 0, value |-> EmptyDict]
    ELSE LET r == llm_try(reply)
         IN  [raised |-> r.exc \notin CaughtExceptions \cup {"none"},
              requests |-> 1,
              value |-> IF r.exc = "none" THEN r.value ELSE EmptyDict]

(***************************************************************************)
(* Inputs                                                                  *)
(***************************************************************************)
Texts == {<<>>, T_payment, T_slow, T_tie, T_login, T_long, T_two}

ClientIds == {PyNone, Str(C_test_client)}

Summaries == {Absent, Str(L_summary), Str(L_blank)}

Categories == {Absent, Str(L_category)}

Severities == {Absent, Str(L_sev_urgent), Str(L_sev_sev1)}

MoreSeverities ==
    {PyNone, Str(<<>>), Num(0), Num(5), Str(L_sev_space), Str(S_critical),
     Str(S_blocker), Str(S_high), Str(S_medium), Str(S_low), Str(L_sev_Critical)}

KbIssueIds == {Absent, Str(L_id_new), Str(L_id_2), Str(L_id_unknown)}

NextSteps == {Absent, Str(L_next_step)}

\* JSON objects the model can answer with
LlmDicts ==
    {[EmptyDict EXCEPT !.summary = su, !.category = ca, !.severity = se,
                       !.kb_issue_id = id, !.next_step = ns] :
        su \in Summaries, ca \in Categories, se \in Severities,
        id \in KbIssueIds, ns \in NextSteps}
    \cup {[EmptyDict EXCEPT !.severity = se] : se \in MoreSeverities}
    \cup {[EmptyDict EXCEPT !.category = ca] : ca \in {PyNone, Str(<<>>)}}
    \cup {[EmptyDict EXCEPT !.kb_issue_id = id] : id \in {PyNone, Str(<<>>), Num(5)}}
    \cup {[EmptyDict EXCEPT !.summary = su] : su \in {PyNone, Str(<<>>), Num(5)}}
    \cup {[EmptyDict EXCEPT !.kb_issue_title = Str(L_title)]}

\* JSON values that are not objects: [1], [], "oops", 7, null
LlmNonDicts == {NonDict(List(1)), NonDict(List(0)), NonDict(Str(L_text)),
                NonDict(Num(7)), NonDict(PyNone)}

\* contents json.loads rejects: repairable, and not
BrokenTexts == {J_single, J_garbage}

Replies ==
    {[status |-> "ok", valid |-> TRUE, text |-> <<>>, parsed |-> p] :
        p \in LlmDicts \cup LlmNonDicts}
    \cup {[status |-> "ok", valid |-> FALSE, text |-> t, parsed |-> EmptyDict] :
             t \in BrokenTexts}
    \cup {[status |-> st, valid |-> FALSE, text |-> <<>>, parsed |-> EmptyDict] :
             st \in ReplyStatuses \ {"ok"}}

\* no request is sent without an API key, so there is no reply to choose
NoRequest == [status |-> "not_sent", valid |-> FALSE, text |-> <<>>, parsed |-> EmptyDict]

\* most lines earlier runs of the service have left in the local file
MaxPriorLines == 1

(***************************************************************************)
(* State machine                                                           *)
(***************************************************************************)
NoCall ==
    [status |-> "none", text |-> <<>>, client_id |-> PyNone,
     reply |-> NoRequest, requests |-> 0, gateway |-> "not_called",
     llm_result |-> EmptyDict, found |-> 0,
     value |-> PyNone, once |-> PyNone, twice |-> PyNone,
     built |-> EmptyDoc, result |-> EmptyDoc, persist |-> "not_called",
     primary |-> "not_tried", local |-> "not_tried",
     app |-> "none", request_client_id |-> PyNone, http_status |-> 0,
     loader |-> "none", kb_file |-> "none"]

\* a line an earlier run of the service left in the local file
PriorLine ==
    build_payload(T_slow,
        [build_result(T_slow, PyNone, EmptyDict, <<>>).result
            EXCEPT !.original_input = Str(T_slow)],
        S_NowIso)

\* no concurrent persist call is under way
NoThreads ==
    /\ FIREBASE_APP = FALSE
    /\ firebase_admin_apps = FALSE
    /\ credentials = FALSE
    /\ reachable = FALSE
    /\ threads = <<>>

Init ==
    /\ KB \in {load_kb(TRUE), load_kb(FALSE)}
    /\ GROQ_API_KEY \in BOOLEAN
    /\ ALLOW_LOCAL_FALLBACK \in BOOLEAN
    /\ localFile \in {[i \in 1..n |-> PriorLine] : n \in 0..MaxPriorLines}
    /\ firestore = EmptyFirestore
    /\ call = NoCall
    /\ NoThreads

\* TicketResponse(**result), app/models.py: every field holds a value of its
\* declared type
ticket_response_valid(result) ==
    /\ \A key \in {"client_id", "summary", "full_text", "category", "severity",
                   "next_step", "analysis_source"} : result[key].t = "str"
    /\ \A key \in {"full_summary", "kb_match"} : result[key].t \in {"str", "none"}
    /\ result.llm_raw.t \in {"dict", "none"}

\* the status of the response to POST /triage: 200 with the validated result,
\* 500 when classify_ticket raised or the result fails validation
response_status(status, result) ==
    IF status = "returned" /\ ticket_response_valid(result) THEN 200 ELSE 500

\* one call of classify_ticket(text, client_id), made directly (app "none") or
\* by the /triage route of app for a request carrying request_client_id: it
\* leaves by an exception before the result dict is built, or builds the
\* result, hands it to save_ticket_result and returns it
classify_ticket(text, client_id, reply, app, request_client_id) ==
    \E gateway \in {llm_classification(GROQ_API_KEY, reply)} :
    \E llm_result \in {gateway.value} :
    \E built \in {IF gateway.raised THEN [raised |-> TRUE, result |-> EmptyDoc]
                   ELSE build_result(text, client_id, llm_result, KB)} :
    \E start \in {[call EXCEPT !.text = text, !.client_id = client_id,
                                 !.reply = reply, !.requests = gateway.requests,
                                 !.llm_result = llm_result, !.app = app,
                                 !.request_client_id = request_client_id]} :
       IF built.raised
       THEN /\ call' = [start EXCEPT !.status = "raised",
                                     !.gateway = IF gateway.raised THEN "raised"
                                                 ELSE "returned",
                                     !.http_status = IF app = "none" THEN 0 ELSE 500]
            /\ UNCHANGED <<localFile, firestore>>
       ELSE \E outcome \in FirestoreOutcomes, writable \in BOOLEAN :
            \E saved \in {save_ticket_result(text, built.result, ALLOW_LOCAL_FALLBACK,
                                             outcome, writable, firestore, localFile)} :
            \E status \in {IF saved.raised THEN "raised" ELSE "returned"} :
               /\ call' = [start EXCEPT
                              !.status = status,
                              !.gateway = "returned",
                              !.built = built.result,
                              !.result = IF saved.raised THEN EmptyDoc
                                         ELSE saved.classification,
                              !.persist = saved.persist,
                              !.primary = outcome,
                              !.local = saved.local,
                              !.http_status =
                                  IF app = "none" THEN 0
                                  ELSE response_status(status, saved.classification)]
               /\ localFile' = saved.file
               /\ firestore' = saved.firestore

\* the request the service handles: one call of classify_ticket
ClassifyTicket ==
    /\ call.status = "none"
    /\ \E text \in Texts, client_id \in ClientIds,
          reply \in IF GROQ_API_KEY THEN Replies ELSE {NoRequest} :
          classify_ticket(text, client_id, reply, "none", PyNone)
    /\ UNCHANGED <<KB, GROQ_API_KEY, ALLOW_LOCAL_FALLBACK>>
    /\ UNCHANGED concurrentVars

Next == ClassifyTicket

Spec == Init /\ [][Next]_vars

(***************************************************************************)
(* POST /triage: the route of app/main.py and the route of main.py         *)
(***************************************************************************)
\* the FastAPI apps of the repository: app/main.py and main.py
Apps == {"app.main", "main"}

\* client_id of a TicketRequest: a required str
RequestClientIds == {Str(C_test_client), Str(<<>>)}

RequestTickets == {<<>>, T_payment, T_slow}

\* replies to the Gateway's request while a route is served
RouteReplies ==
    {[status |-> "ok", valid |-> TRUE, text |-> <<>>, parsed |-> p] :
        p \in {[EmptyDict EXCEPT !.summary = Str(L_summary), !.kb_issue_id = Str(L_id_2)],
               [EmptyDict EXCEPT !.severity = Num(5)],
               [EmptyDict EXCEPT !.category = List(1)]}}
    \cup {[status |-> "transport_error", valid |-> FALSE, text |-> <<>>,
           parsed |-> EmptyDict]}

\* triage_ticket: app/main.py passes the request's client_id to
\* classify_ticket, main.py passes the ticket only
TriageTicket ==
    /\ call.status = "none"
    /\ \E app \in Apps, request_client_id \in RequestClientIds,
          ticket \in RequestTickets,
          reply \in IF GROQ_API_KEY THEN RouteReplies ELSE {NoRequest} :
          classify_ticket(ticket,
                          IF app = "app.main" THEN request_client_id ELSE PyNone,
                          reply, app, request_client_id)
    /\ UNCHANGED <<KB, GROQ_API_KEY, ALLOW_LOCAL_FALLBACK>>
    /\ UNCHANGED concurrentVars

NextApi == TriageTicket

SpecApi == Init /\ [][NextApi]_vars

(***************************************************************************)
(* Concurrent persist calls: firebase_client.save_ticket_result run by      *)
(* several request threads of one process                                  *)
(***************************************************************************)
\* request threads that persist at the same time
NumThreads == 2

\* most os.write calls one line takes: a write of a whole line can be cut
\* short, or the file system may not append atomically, and the buffered
\* writer then goes on with the rest
MaxWrites == 2

Threads == 1..NumThreads

\* a thread entering save_ticket_result
NewThread ==
    [pc |-> "init_app", app |-> "unset", persisted |-> "not_yet", parts |-> 0, written |-> 0]

InitConcurrent ==
    /\ KB = <<>>
    /\ GROQ_API_KEY = FALSE
    /\ ALLOW_LOCAL_FALLBACK \in BOOLEAN
    /\ localFile = <<>>
    /\ firestore = EmptyFirestore
    /\ call = NoCall
    /\ FIREBASE_APP = FALSE
    /\ firebase_admin_apps = FALSE
    /\ credentials \in BOOLEAN
    /\ reachable \in BOOLEAN
    /\ threads = [t \in Threads |-> NewThread]

\* _init_app lines 38-44: the cached handle, or no credentials, or go on
InitApp(t) ==
    /\ threads[t].pc = "init_app"
    /\ threads' = [threads EXCEPT ![t] =
          IF FIREBASE_APP THEN [@ EXCEPT !.pc = "persist", !.app = "cached"]
          ELSE IF ~credentials THEN [@ EXCEPT !.pc = "persist", !.app = "none"]
          ELSE [@ EXCEPT !.pc = "check_apps"]]
    /\ UNCHANGED <<FIREBASE_APP, firebase_admin_apps, credentials, reachable>>
    /\ UNCHANGED sequentialVars

\* line 47: if not firebase_admin._apps
CheckApps(t) ==
    /\ threads[t].pc = "check_apps"
    /\ threads' = [threads EXCEPT ![t].pc =
          IF firebase_admin_apps THEN "get_app" ELSE "initialize_app"]
    /\ UNCHANGED <<FIREBASE_APP, firebase_admin_apps, credentials, reachable>>
    /\ UNCHANGED sequentialVars

\* line 48, firebase_admin.initialize_app(cred): it registers the default app,
\* or raises ValueError when the default app exists, which lines 53-55 turn
\* into None
InitializeApp(t) ==
    /\ threads[t].pc = "initialize_app"
    /\ IF firebase_admin_apps
       THEN /\ threads' = [threads EXCEPT ![t] =
                            [@ EXCEPT !.pc = "persist", !.app = "value_error"]]
            /\ UNCHANGED firebase_admin_apps
       ELSE /\ firebase_admin_apps' = TRUE
            /\ threads' = [threads EXCEPT ![t].pc = "store_app"]
    /\ UNCHANGED <<FIREBASE_APP, credentials, reachable>>
    /\ UNCHANGED sequentialVars

\* line 48, the assignment to _FIREBASE_APP of the app just initialised
StoreApp(t) ==
    /\ threads[t].pc = "store_app"
    /\ FIREBASE_APP' = TRUE
    /\ threads' = [threads EXCEPT ![t] =
                     [@ EXCEPT !.pc = "persist", !.app = "initialized"]]
    /\ UNCHANGED <<firebase_admin_apps, credentials, reachable>>
    /\ UNCHANGED sequentialVars

\* line 50: _FIREBASE_APP = firebase_admin.get_app()
GetApp(t) ==
    /\ threads[t].pc = "get_app"
    /\ FIREBASE_APP' = TRUE
    /\ threads' = [threads EXCEPT ![t] = [@ EXCEPT !.pc = "persist", !.app = "got"]]
    /\ UNCHANGED <<firebase_admin_apps, credentials, reachable>>
    /\ UNCHANGED sequentialVars

\* the thread holds an app, so get_firestore_client gives it a client
HasClient(t) == threads[t].app \in {"cached", "initialized", "got"}

\* save_ticket_result lines 146-151: the primary write, or RuntimeError when
\* it fails and there is no fallback, or on to _persist_locally
PersistToFirestore(t) ==
    /\ threads[t].pc = "persist"
    /\ IF HasClient(t) /\ reachable
       THEN threads' = [threads EXCEPT ![t] =
                          [@ EXCEPT !.pc = "done", !.persisted = "primary"]]
       ELSE IF ~ALLOW_LOCAL_FALLBACK
       THEN threads' = [threads EXCEPT ![t] =
                          [@ EXCEPT !.pc = "done", !.persisted = "raised"]]
       ELSE \E parts \in 1..MaxWrites :
               threads' = [threads EXCEPT ![t] =
                             [@ EXCEPT !.pc = "append", !.parts = parts]]
    /\ UNCHANGED <<FIREBASE_APP, firebase_admin_apps, credentials, reachable>>
    /\ UNCHANGED sequentialVars

\* _persist_locally lines 137-138: one os.write of the open handle, which puts
\* the next part of the thread's line at the end of the file
RawWrite(t) ==
    /\ threads[t].pc = "append"
    /\ localFile' = Append(localFile,
                           [writer |-> t, part |-> threads[t].written + 1,
                            parts |-> threads[t].parts])
    /\ threads' = [threads EXCEPT ![t] =
          IF @.written + 1 = @.parts
          THEN [@ EXCEPT !.written = @ + 1, !.pc = "done", !.persisted = "local"]
          ELSE [@ EXCEPT !.written = @ + 1]]
    /\ UNCHANGED <<KB, GROQ_API_KEY, ALLOW_LOCAL_FALLBACK, firestore, call>>
    /\ UNCHANGED <<FIREBASE_APP, firebase_admin_apps, credentials, reachable>>

NextConcurrent ==
    \E t \in Threads :
        \/ InitApp(t)
        \/ CheckApps(t)
        \/ InitializeApp(t)
        \/ StoreApp(t)
        \/ GetApp(t)
        \/ PersistToFirestore(t)
        \/ RawWrite(t)

SpecConcurrent == InitConcurrent /\ [][NextConcurrent]_vars

(***************************************************************************)
(* firebase_client.save_ticket_result on its own, for any classification   *)
(***************************************************************************)
\* kb_match of a classification: missing, None, or the id of an issue
PersistKbMatches == {Absent, PyNone, Str(K1_id), Str(K2_id)}

\* severity of a classification: missing, None, empty, a level as the pipeline
\* writes it, a level in another case or padded, an unknown word
PersistSeverities ==
    {Absent, PyNone, Str(<<>>), Str(S_Low), Str(S_Critical), Str(P_sev_high),
     Str(P_sev_CRITICAL), Str(P_sev_lOW), Str(S_medium), Str(S_urgent)}

\* the classification dicts save_ticket_result is given
PersistClassifications ==
    {[build_result(T_slow, PyNone, EmptyDict, <<>>).result
         EXCEPT !.kb_match = id, !.severity = se] :
        id \in PersistKbMatches, se \in PersistSeverities}

\* one call of firebase_client.save_ticket_result(ticket_text, classification)
SaveTicketResult ==
    /\ call.status = "none"
    /\ \E classification \in PersistClassifications,
          outcome \in FirestoreOutcomes, writable \in BOOLEAN :
       \E saved \in {save_ticket_to_firestore(T_slow, classification,
                                               ALLOW_LOCAL_FALLBACK, outcome, writable,
                                               firestore, localFile)} :
          /\ call' = [NoCall EXCEPT !.status = "persisted", !.text = T_slow,
                                    !.built = classification,
                                    !.result = saved.classification,
                                    !.persist = saved.outcome,
                                    !.primary = outcome,
                                    !.local = saved.local]
          /\ localFile' = saved.file
          /\ firestore' = saved.firestore
    /\ UNCHANGED <<KB, GROQ_API_KEY, ALLOW_LOCAL_FALLBACK>>
    /\ UNCHANGED concurrentVars

NextPersist == SaveTicketResult

SpecPersist == Init /\ [][NextPersist]_vars

(***************************************************************************)
(* Loading the knowledge base, then classifying with the Gateway disabled  *)
(***************************************************************************)
\* the modules of the repository that define load_kb
Loaders == {"classifier", "kb_loader"}

InitLoad ==
    /\ KB = <<>>
    /\ GROQ_API_KEY = FALSE
    /\ ALLOW_LOCAL_FALLBACK \in BOOLEAN
    /\ localFile \in {[i \in 1..n |-> PriorLine] : n \in 0..MaxPriorLines}
    /\ firestore = EmptyFirestore
    /\ call = NoCall
    /\ NoThreads

\* the knowledge base is loaded, by load_kb of classifier.py or of kb_loader.py
LoadKb ==
    /\ call.status = "none"
    /\ \E loader \in Loaders, file \in KbFiles :
       \E loaded \in {IF loader = "classifier"
                       THEN [raised |-> FALSE, kb |-> load_kb(file = "present")]
                       ELSE kb_loader_load_kb(file)} :
          /\ KB' = loaded.kb
          /\ call' = [NoCall EXCEPT
                         !.status = IF loaded.raised THEN "load_raised" ELSE "loaded",
                         !.loader = loader, !.kb_file = file]
    /\ UNCHANGED <<GROQ_API_KEY, ALLOW_LOCAL_FALLBACK, localFile, firestore>>
    /\ UNCHANGED concurrentVars

\* classify_ticket over the knowledge base that was loaded
ClassifyLoaded ==
    /\ call.status = "loaded"
    /\ \E text \in Texts, client_id \in ClientIds :
          classify_ticket(text, client_id, NoRequest, "none", PyNone)
    /\ UNCHANGED <<KB, GROQ_API_KEY, ALLOW_LOCAL_FALLBACK>>
    /\ UNCHANGED concurrentVars

NextLoad == LoadKb \/ ClassifyLoaded

SpecLoad == InitLoad /\ [][NextLoad]_vars

(***************************************************************************)
(* The keyword matcher on its own, over every load order of the entries    *)
(***************************************************************************)
\* knowledge base files: the entries of KB_DATA, any of them, in any order
KbOrders ==
    {[i \in DOMAIN p |-> KB_DATA[p[i]]] :
        p \in {q \in UNION {[1..n -> DOMAIN KB_DATA] : n \in 0..Len(KB_DATA)} :
                 \A i, j \in DOMAIN q : q[i] = q[j] => i = j}}

MatcherTexts == Texts \cup {T_timeout, T_upper}

InitMatcher ==
    /\ KB \in KbOrders
    /\ GROQ_API_KEY = FALSE
    /\ ALLOW_LOCAL_FALLBACK = FALSE
    /\ localFile = <<>>
    /\ firestore = EmptyFirestore
    /\ call = NoCall
    /\ NoThreads

\* one call of _find_kb_entry
FindKbEntry ==
    /\ call.status = "none"
    /\ \E text \in MatcherTexts :
          call' = [NoCall EXCEPT !.status = "matched", !.text = text,
                                 !.found = find_kb_entry(text, KB)]
    /\ UNCHANGED <<KB, GROQ_API_KEY, ALLOW_LOCAL_FALLBACK, localFile, firestore>>
    /\ UNCHANGED concurrentVars

NextMatcher == FindKbEntry

SpecMatcher == InitMatcher /\ [][NextMatcher]_vars

(***************************************************************************)
(* _normalize_severity on its own, over words in any case and padding      *)
(***************************************************************************)
\* str.upper
upper(s) == [i \in 1..Len(s) |-> upper_char(s[i])]

\* the words of the mapping, an unknown word and no word, as a model may
\* write them: lower case, upper case or capitalized
SeverityWords ==
    LET words == {S_critical, S_blocker, S_urgent, S_high, S_medium, S_low,
                  L_sev_sev1, <<>>}
    IN  UNION {{w, upper(w), capitalize(w)} : w \in words}

\* whitespace around a word
Paddings == {<<>>, <<" ">>, <<"\t", "\n">>}

\* the values _normalize_severity is given: None, or a str
SeverityValues ==
    {PyNone} \cup {Str(pre \o w \o post) :
                     pre \in Paddings, w \in SeverityWords, post \in Paddings}

InitNormalize ==
    /\ KB = <<>>
    /\ GROQ_API_KEY = FALSE
    /\ ALLOW_LOCAL_FALLBACK = FALSE
    /\ localFile = <<>>
    /\ firestore = EmptyFirestore
    /\ call = NoCall
    /\ NoThreads

\* _normalize_severity applied to a value, and to what it returned
NormalizeSeverity ==
    /\ call.status = "none"
    /\ \E value \in SeverityValues :
          call' = [NoCall EXCEPT !.status = "normalized", !.value = value,
                                 !.once = normalize_severity(value),
                                 !.twice = normalize_severity(normalize_severity(value))]
    /\ UNCHANGED <<KB, GROQ_API_KEY, ALLOW_LOCAL_FALLBACK, localFile, firestore>>
    /\ UNCHANGED concurrentVars

NextNormalize == NormalizeSeverity

SpecNormalize == InitNormalize /\ [][NextNormalize]_vars

(***************************************************************************)
(* Claims                                                                  *)
(***************************************************************************)
Returned == call.status = "returned"

\* a non-empty string
NonEmptyStr(v) == v.t = "str" /\ v.s # <<>>

SeverityLevels == {S_Critical, S_High, S_Medium, S_Low}

\* the reply of the Gateway was the empty result
LlmEmpty == call.llm_result = EmptyDict

\* C1: every result classify_ticket returns has a non-empty category, severity,
\* next_step and summary, and its severity is Critical, High, Medium or Low.
\* The code returns summary "" for the empty ticket text when neither the model
\* nor the knowledge base contributes.
C1_NonEmptyFields ==
    Returned =>
        /\ NonEmptyStr(call.result.category)
        /\ NonEmptyStr(call.result.severity)
        /\ NonEmptyStr(call.result.next_step)
        /\ NonEmptyStr(call.result.summary)
        /\ call.result.severity.s \in SeverityLevels

\* C2: classify_ticket never raises, whatever JSON value the Gateway hands back.
\* The code raises AttributeError on a non-object reply and on a non-string
\* kb_issue_id, summary or severity.
C2_NeverRaises == call.status # "raised"

\* C3: whenever the built result was handed to persistence (which returned true,
\* returned false or raised), classify_ticket returns that same result and no
\* exception reaches the caller.
C3_StorageOutageHarmless ==
    call.persist \in {"true", "false", "raised"} =>
        /\ call.status = "returned"
        /\ call.result = call.built

\* C3 witness: persistence raised (Firestore failed, fallback disabled) and the
\* call still returned its result
C3_Witness ==
    /\ call.persist = "raised"
    /\ call.primary # "ok"
    /\ ~ALLOW_LOCAL_FALLBACK
    /\ Returned
    /\ call.result.full_text = Str(call.text)

\* the field the Gateway's reply gives under key, None when the reply is empty
\* or has no such key
LlmField(key) ==
    IF llm_truthy(call.llm_result) /\ call.llm_result.t = "dict"
    THEN dict_get(call.llm_result, key) ELSE PyNone

\* id of the entry the Keyword Matcher picks for the ticket text, None if none
KeywordMatchId ==
    LET m == find_kb_entry(call.text, KB)
    IN  IF m > 0 THEN Str(KB[m].id) ELSE PyNone

\* C4: when the Gateway yields the empty result, the call returns with
\* analysis_source "Heuristics" and the heuristic severity of the raw text; a KB
\* entry resolved by the Keyword Matcher gives kb_match, category and next_step,
\* otherwise kb_match is None, category "General" and next_step the default. The
\* payment ticket with ISSUE-001 loaded gives Payment, ISSUE-001, High.
C4_EmptyLlmResult ==
    (call.status # "none" /\ LlmEmpty) =>
        /\ Returned
        /\ call.result.analysis_source = Str(S_Heuristics)
        /\ call.result.severity = Str(infer_severity(call.text))
        /\ LET m == find_kb_entry(call.text, KB)
           IN  IF m > 0
               THEN /\ call.result.kb_match = Str(KB[m].id)
                    /\ call.result.category = Str(KB[m].category)
                    /\ call.result.next_step = Str(KB[m].recommended_action)
               ELSE /\ call.result.kb_match = PyNone
                    /\ call.result.category = Str(S_General)
                    /\ call.result.next_step = Str(S_DefaultNextStep)
        /\ (call.text = T_payment /\ KB = KB_DATA) =>
              /\ call.result.category = Str(K1_category)
              /\ call.result.kb_match = Str(K1_id)
              /\ call.result.severity = Str(S_High)

\* C4 witness: no API key, the payment ticket, ISSUE-001 found by its symptoms
C4_Witness ==
    /\ Returned
    /\ ~GROQ_API_KEY
    /\ LlmEmpty
    /\ call.text = T_payment
    /\ call.result.kb_match = Str(K1_id)
    /\ call.result.analysis_source = Str(S_Heuristics)

\* KB entries the Gateway's kb_issue_id names (case-insensitive, trimmed)
NamedByLlm ==
    LET id == LlmField("kb_issue_id")
    IN  IF id.t = "str"
        THEN {i \in DOMAIN KB : lower(strip(KB[i].id)) = lower(strip(id.s))}
        ELSE {}

\* the reply is a JSON value classify_ticket cannot take: a non-empty value that
\* is not an object, or a non-string kb_issue_id, summary or severity
IllTypedReply ==
    \/ llm_truthy(call.llm_result) /\ call.llm_result.t # "dict"
    \/ \E key \in {"kb_issue_id", "summary", "severity"} :
          Truthy(LlmField(key)) /\ LlmField(key).t # "str"

\* C5: when kb_issue_id names a loaded entry, kb_match is that entry's id; when it
\* is absent, NEW_ISSUE or names no loaded entry, kb_match is what the Keyword
\* Matcher gives for the raw text, and no exception comes of it.
C5_ModelPrecedence ==
    /\ Returned =>
          IF NamedByLlm # {}
          THEN \E i \in NamedByLlm : call.result.kb_match = Str(KB[i].id)
          ELSE call.result.kb_match = KeywordMatchId
    /\ call.status = "raised" => IllTypedReply

\* C5 witness: the model names ISSUE-002 while the text matches ISSUE-001
C5_Witness ==
    /\ Returned
    /\ LlmField("kb_issue_id") = Str(L_id_2)
    /\ call.text = T_payment
    /\ KeywordMatchId = Str(K1_id)
    /\ call.result.kb_match = Str(K2_id)

\* out is s with every whitespace run collapsed to one space and the ends trimmed
IsWhitespaceNormalized(out, s) ==
    LET black(c) == c \notin Whitespace
        gaps == {i \in 1..(Len(s) - 1) :
                    /\ s[i] \in Whitespace
                    /\ s[i + 1] \notin Whitespace
                    /\ \E j \in 1..i : s[j] \notin Whitespace}
    IN  /\ SelectSeq(out, black) = SelectSeq(s, black)
        /\ \A i \in DOMAIN out : out[i] \in Whitespace => out[i] = " "
        /\ out # <<>> => out[1] # " " /\ out[Len(out)] # " "
        /\ \A i \in 1..(Len(out) - 1) : ~(out[i] = " " /\ out[i + 1] = " ")
        /\ Cardinality({i \in DOMAIN out : out[i] = " "}) = Cardinality(gaps)

\* the first non-empty string of a priority list, the last entry if there is none
FirstPresent(list) ==
    LET present == {i \in DOMAIN list : NonEmptyStr(list[i])}
    IN  IF present = {} THEN list[Len(list)]
        ELSE list[CHOOSE i \in present : \A j \in present : i <= j]

\* the KB entries whose id is the result's kb_match
SelectedEntries == {i \in DOMAIN KB : Str(KB[i].id) = call.result.kb_match}

\* field of the selected KB entry, None without one
SelectedField(key) ==
    IF SelectedEntries = {} THEN PyNone
    ELSE Str(KB[CHOOSE i \in SelectedEntries : TRUE][key])

\* C6: full_summary is the whitespace-normalized LLM summary, or None; summary is
\* the first present of full_summary, the selected entry's title, the first 80
\* characters of the text; category of LLM category, entry category, "General";
\* next_step of LLM next step, entry action, the default instruction.
C6_FieldPriority ==
    Returned =>
        LET su == LlmField("summary")
            fs == call.result.full_summary
            head == IF Len(call.text) > 80 THEN SubSeq(call.text, 1, 80) ELSE call.text
        IN  /\ IF su.t = "str" /\ \E i \in DOMAIN su.s : su.s[i] \notin Whitespace
               THEN fs.t = "str" /\ IsWhitespaceNormalized(fs.s, su.s)
               ELSE fs = PyNone
            /\ call.result.summary = FirstPresent(<<fs, SelectedField("title"), Str(head)>>)
            /\ call.result.category =
                  FirstPresent(<<LlmField("category"), SelectedField("category"),
                                 Str(S_General)>>)
            /\ call.result.next_step =
                  FirstPresent(<<LlmField("next_step"), SelectedField("recommended_action"),
                                 Str(S_DefaultNextStep)>>)

\* C6 witness: a summary with whitespace runs is normalized, and the long text
\* is the ticket
C6_Witness ==
    /\ Returned
    /\ LlmField("summary") = Str(L_summary)
    /\ call.result.summary = Str(L_summary_clean)
    /\ call.result.full_summary = Str(L_summary_clean)
    /\ LlmField("category") = PyNone
    /\ call.result.category = Str(K2_category)
    /\ call.text = T_long

\* the level the claim gives for a trimmed, lower-cased severity word
ClaimedLevel(word) ==
    IF word \in {S_critical, S_blocker} THEN S_Critical
    ELSE IF word \in {S_urgent, S_high} THEN S_High
    ELSE IF word = S_medium THEN S_Medium
    ELSE IF word = S_low THEN S_Low
    ELSE S_Medium

\* C7: when the reply carries a severity the result's severity is its normalized
\* level whatever the text says, otherwise it is the heuristic's level for the text.
C7_SeveritySource ==
    Returned =>
        LET sev == LlmField("severity")
        IN  IF Truthy(sev)
            THEN /\ sev.t = "str"
                 /\ call.result.severity = Str(ClaimedLevel(strip(lower(sev.s))))
            ELSE call.result.severity = Str(infer_severity(call.text))

\* C7 witness: the model says " URGENT" on a ticket the heuristic rates Low
C7_Witness ==
    /\ Returned
    /\ LlmField("severity") = Str(L_sev_urgent)
    /\ call.text = T_slow
    /\ infer_severity(call.text) = S_Low
    /\ call.result.severity = Str(S_High)

\* 'LLM+KB'
S_LLMKB ==
    <<"L","L","M","+","K","B">>

\* 'LLM'
S_LLM ==
    <<"L","L","M">>

\* the tag for each combination of signals, given the two LLM tags
SourceTagRule(with_kb, llm_only) ==
    Returned =>
        LET tag == call.result.analysis_source
            has_llm == llm_truthy(call.llm_result)
            has_kb == call.result.kb_match # PyNone
        IN  /\ tag \in {Str(with_kb), Str(llm_only), Str(S_Heuristics)}
            /\ tag = Str(with_kb) <=> (has_llm /\ has_kb)
            /\ tag = Str(llm_only) <=> (has_llm /\ ~has_kb)
            /\ tag = Str(S_Heuristics) <=> ~has_llm

\* C8 as stated: the tag is one of "LLM+KB", "LLM", "Heuristics".
C8_TagsAsStated == SourceTagRule(S_LLMKB, S_LLM)

\* C8 amended: the tag is one of "Groq+KB", "Groq", "Heuristics": "Groq+KB" exactly
\* when the reply is non-empty and a KB id was resolved, "Groq" when the reply is
\* non-empty and no KB id was resolved, "Heuristics" when the reply is empty.
C8_SourceTag == SourceTagRule(S_GroqKB, S_Groq)

\* C8 witness: the model answers NEW_ISSUE and the Keyword Matcher resolves ISSUE-001
C8_Witness ==
    /\ Returned
    /\ LlmField("kb_issue_id") = Str(L_id_new)
    /\ call.result.kb_match = Str(K1_id)
    /\ call.result.analysis_source = Str(S_GroqKB)

\* C9: firebase_client.save_ticket_result raises exactly when the Firestore write
\* fails and local fallback is disabled; with fallback enabled it returns True or
\* False, False exactly when the Firestore write and the local append both fail.
C9_PersistOutcome ==
    call.persist # "not_called" =>
        /\ call.persist \in {"true", "false", "raised"}
        /\ call.persist = "raised" <=> (call.primary # "ok" /\ ~ALLOW_LOCAL_FALLBACK)
        /\ ALLOW_LOCAL_FALLBACK =>
              /\ call.persist \in {"true", "false"}
              /\ call.persist = "false" <=> (call.primary # "ok" /\ call.local = "failed")

\* C9 witness: fallback enabled, the Firestore add and the local append both fail
C9_Witness ==
    /\ ALLOW_LOCAL_FALLBACK
    /\ call.primary = "add_error"
    /\ call.local = "failed"
    /\ call.persist = "false"

\* the keys classify_ticket puts in its result
ResultKeys ==
    {"client_id", "summary", "full_summary", "full_text", "category", "severity",
     "kb_match", "next_step", "analysis_source", "llm_raw"}

\* line is the full payload of the call: the ticket text, every classification
\* field as built, and created_at set
IsFullPayload(line, c) ==
    /\ line.ticket = Str(c.text)
    /\ \A key \in ResultKeys : line[key] = c.built[key]
    /\ NonEmptyStr(line.created_at)

\* C10 as stated: with fallback enabled, a persist call whose Firestore write
\* failed appends exactly one line, the full payload, and one whose Firestore
\* write succeeded appends none.
C10_AsStated ==
    [][(ALLOW_LOCAL_FALLBACK /\ call'.persist # "not_called") =>
          IF call'.primary # "ok"
          THEN /\ Len(localFile') = Len(localFile) + 1
               /\ SubSeq(localFile', 1, Len(localFile)) = localFile
               /\ IsFullPayload(localFile'[Len(localFile')], call')
          ELSE localFile' = localFile]_vars

\* C10 amended: with fallback enabled, a persist call appends exactly one line,
\* the full payload with created_at set, when its Firestore write failed and the
\* local append succeeded, and leaves the file as it was otherwise; a ticket
\* whose persist returned True is in exactly one of the two stores.
C10_OneLinePerFallback ==
    [][(ALLOW_LOCAL_FALLBACK /\ call'.persist # "not_called") =>
          /\ IF call'.primary # "ok" /\ call'.local = "written"
             THEN /\ Len(localFile') = Len(localFile) + 1
                  /\ SubSeq(localFile', 1, Len(localFile)) = localFile
                  /\ IsFullPayload(localFile'[Len(localFile')], call')
             ELSE localFile' = localFile
          /\ call'.persist = "true" <=>
                (Len(firestore'.tickets) - Len(firestore.tickets))
                + (Len(localFile') - Len(localFile)) = 1
          /\ call'.persist = "false" =>
                /\ firestore'.tickets = firestore.tickets
                /\ localFile' = localFile]_vars

\* C10 witness: no Firestore client, the payload was appended after the line
\* that was already in the file
C10_Witness ==
    /\ ALLOW_LOCAL_FALLBACK
    /\ call.primary = "no_client"
    /\ call.persist = "true"
    /\ Len(localFile) > 1
    /\ localFile[1] = PriorLine
    /\ IsFullPayload(localFile[Len(localFile)], call)
    /\ firestore.tickets = <<>>

\* the replies that carry no content _repair_json could be given
FailedReplies == {"transport_error", "http_error", "bad_body", "no_choices", "no_content"}

\* C11: the Gateway never raises and makes at most one request per call; without
\* an API key it makes none and returns {}; a transport error, a non-success
\* status, missing content, and content still unparsable after the repair pass
\* each give {}.
C11_GatewayContained ==
    call.status # "none" =>
        /\ call.gateway = "returned"
        /\ call.requests <= 1
        /\ ~GROQ_API_KEY =>
               call.requests = 0 /\ call.reply = NoRequest /\ call.llm_result = EmptyDict
        /\ call.reply.status \in FailedReplies => call.llm_result = EmptyDict
        /\ (call.reply.status = "ok" /\ call.reply.text = J_garbage) =>
               call.llm_result = EmptyDict

\* a request was sent and the reply had no content: the call went on with {}
C11_Witness ==
    /\ call.status = "returned"
    /\ GROQ_API_KEY
    /\ call.requests = 1
    /\ call.reply.status = "no_content"
    /\ call.llm_result = EmptyDict
\* sub occurs in s as a run of consecutive characters
OccursIn(sub, s) ==
    \E k \in 0..(Len(s) - Len(sub)) : SubSeq(s, k + 1, k + Len(sub)) = sub

\* the number of symptom phrases of entry i that occur in the text, case ignored
PhraseCount(i, text) ==
    Cardinality({j \in DOMAIN KB[i].symptoms :
                    OccursIn(lower(KB[i].symptoms[j]), lower(text))})

\* C12: the Keyword Matcher returns the entry with the highest count of symptom
\* phrases occurring in the text (substrings, case ignored); of entries with
\* the same highest count the earliest in load order; and none exactly when
\* every entry counts 0.
C12_KeywordMatcher ==
    call.status = "matched" =>
        /\ call.found \in 0..Len(KB)
        /\ call.found = 0 <=> \A i \in DOMAIN KB : PhraseCount(i, call.text) = 0
        /\ call.found # 0 =>
              /\ \A i \in DOMAIN KB :
                    PhraseCount(i, call.text) <= PhraseCount(call.found, call.text)
              /\ \A i \in 1..(call.found - 1) :
                    PhraseCount(i, call.text) < PhraseCount(call.found, call.text)

\* two entries share the highest count and the earlier one was returned
C12_Witness ==
    /\ call.status = "matched"
    /\ call.found # 0
    /\ \E i \in DOMAIN KB :
          /\ i > call.found
          /\ PhraseCount(i, call.text) = PhraseCount(call.found, call.text)
\* the Gateway gave no usable response: classify_ticket treats llm_result as empty
NoUsableResponse == ~llm_truthy(call.llm_result)

\* entry i has a symptom phrase that the text contains exactly as written
ContainsPhraseOf(i, text) ==
    \E j \in DOMAIN KB[i].symptoms : OccursIn(KB[i].symptoms[j], text)

\* entry i has the highest phrase count, and is the earliest entry that has it
BestEntry(i, text) ==
    /\ PhraseCount(i, text) >= 1
    /\ \A k \in DOMAIN KB : PhraseCount(k, text) <= PhraseCount(i, text)
    /\ \A k \in 1..(i - 1) : PhraseCount(k, text) < PhraseCount(i, text)

\* C13 as stated: with no usable model response, kb_match is the id of every
\* entry one of whose symptom phrases the text contains.
C13_AsStated ==
    (Returned /\ NoUsableResponse) =>
        \A i \in DOMAIN KB :
            ContainsPhraseOf(i, call.text) => call.result.kb_match = Str(KB[i].id)

\* C13: with no usable model response, kb_match is the id of the entry whose
\* phrase count is highest and which comes first among the entries with that
\* count; so an entry whose phrase the text contains is resolved when no other
\* entry counts more, or as much earlier in load order; and kb_match is absent
\* only when the text contains no phrase of any entry.
C13_KeywordResolves ==
    (Returned /\ NoUsableResponse) =>
        /\ \A i \in DOMAIN KB :
              BestEntry(i, call.text) => call.result.kb_match = Str(KB[i].id)
        /\ (\E i \in DOMAIN KB : PhraseCount(i, call.text) >= 1) =>
              \E i \in DOMAIN KB :
                 /\ PhraseCount(i, call.text) >= 1
                 /\ call.result.kb_match = Str(KB[i].id)
        /\ (\A i \in DOMAIN KB : PhraseCount(i, call.text) = 0) =>
              call.result.kb_match = PyNone

\* the text contains phrases of three entries and the second, counting most, won
C13_Witness ==
    /\ Returned
    /\ NoUsableResponse
    /\ Len(KB) >= 2
    /\ BestEntry(2, call.text)
    /\ ContainsPhraseOf(1, call.text)
    /\ call.result.kb_match = Str(KB[2].id)
\* C14: normalize(normalize(x)) = normalize(x) for every string x and for
\* absent; normalize("") is absent; every non-empty string, whitespace-only
\* included, gives one of Critical, High, Medium, Low.
C14_NormalizeIdempotent ==
    call.status = "normalized" =>
        /\ call.twice = call.once
        /\ call.value \in {PyNone, Str(<<>>)} => call.once = PyNone
        /\ NonEmptyStr(call.value) =>
              call.once.t = "str" /\ call.once.s \in SeverityLevels

\* a whitespace-only value was normalized, to Medium both times
C14_Witness ==
    /\ call.status = "normalized"
    /\ call.value = Str(<<" ", "\t", "\n">>)
    /\ call.once = Str(S_Medium)
    /\ call.twice = Str(S_Medium)
\* C15: the result's client_id is the client id the caller supplied, and the
\* placeholder "unknown-client" only when the caller supplied none; every POST
\* /triage request carrying client_id c gets a 200 response whose client_id is c.
C15_ClientIdEchoed ==
    /\ Returned =>
          /\ call.client_id # PyNone => call.result.client_id = call.client_id
          /\ call.client_id = PyNone => call.result.client_id = Str(S_UnknownClient)
    /\ (call.status # "none" /\ call.app # "none") =>
          /\ call.http_status = 200
          /\ call.result.client_id = call.request_client_id
\* the issue record of the catch-all bucket, as the primary path writes it
CatchAllIssue(d) ==
    /\ d.doc_id = S_NEW_ISSUES
    /\ d.issue_id = Str(S_NEW_ISSUES)
    /\ d.source = Str(S_auto_generated)

\* C16: the result classify returns equals the result it built before it called
\* persistence, on every persistence path; kb_match stays absent when no KB
\* entry matched, although the primary path then writes the catch-all issue
\* id and a kb_source into the issue record.
C16_ResultNotMutated ==
    Returned =>
        /\ call.result = call.built
        /\ call.built.kb_match = PyNone =>
              /\ call.result.kb_match = PyNone
              /\ call.result.kb_source = Absent
              /\ call.primary = "ok" => \E d \in firestore.issues : CatchAllIssue(d)

\* no KB entry matched, the primary write succeeded under the catch-all id,
\* and the returned result still has no kb_match
C16_Witness ==
    /\ Returned
    /\ call.primary = "ok"
    /\ call.persist = "true"
    /\ call.built.kb_match = PyNone
    /\ call.result.kb_match = PyNone
    /\ \E d \in firestore.issues : CatchAllIssue(d)
\* every concurrent persist call has returned
AllDone == \A t \in DOMAIN threads : threads[t].pc = "done"

\* every line of the file is whole: its parts follow one another, first to last
LinesIntact ==
    \A i \in DOMAIN localFile :
        /\ localFile[i].part > 1 =>
              /\ i > 1
              /\ localFile[i - 1].writer = localFile[i].writer
              /\ localFile[i - 1].part = localFile[i].part - 1
        /\ localFile[i].part < localFile[i].parts =>
              /\ i < Len(localFile)
              /\ localFile[i + 1].writer = localFile[i].writer

\* C17: after any interleaving of N concurrent persist calls that fall back to
\* the local file, the file holds exactly N more complete lines, each the
\* whole payload of one call, none interleaved with or split by another.
C17_AppendsSerialized ==
    (threads # <<>> /\ AllDone) =>
        /\ LinesIntact
        /\ Cardinality({i \in DOMAIN localFile : localFile[i].part = localFile[i].parts})
             = Cardinality({t \in DOMAIN threads : threads[t].persisted = "local"})

\* what a persist call does when it runs alone in a fresh process
AloneOutcome ==
    IF credentials /\ reachable THEN "primary"
    ELSE IF ALLOW_LOCAL_FALLBACK THEN "local"
    ELSE "raised"

\* C18: concurrent calls are independent: each call's persistence outcome is
\* what it would be alone, under every interleaving; concurrent first use
\* initialises the app handle at most once and diverts no call to the fallback.
C18_CallsIndependent ==
    \A t \in DOMAIN threads :
        /\ threads[t].pc = "done" => threads[t].persisted = AloneOutcome
        /\ threads[t].app # "value_error"
        /\ \A u \in DOMAIN threads :
              (threads[t].app = "initialized" /\ threads[u].app = "initialized") => t = u
\* the bucket names
BucketNames == {S_Low, S_Medium, S_High, S_Critical}

\* a severity canonicalized: the bucket name it spells once trimmed, in any
\* case; Medium when it is absent or spells none
CanonicalSeverity(severity) ==
    LET spelled == {b \in BucketNames :
                       severity.t = "str" /\ lower(strip(severity.s)) = lower(b)}
    IN  IF spelled = {} THEN S_Medium ELSE CHOOSE b \in spelled : TRUE

\* the issue a classification belongs to: its kb_match, or the catch-all bucket
IssueOf(classification) ==
    IF NonEmptyStr(classification.kb_match) THEN classification.kb_match.s
    ELSE S_NEW_ISSUES

\* C19: on the primary path the ticket is stored under the issue record keyed
\* by the result's kb_match id, or by the catch-all id when kb_match is absent,
\* in a sub-group named Low, Medium, High or Critical: the result's severity
\* trimmed and in canonical case, Medium when absent or unrecognized.
C19_GroupedByIssueAndSeverity ==
    (call.status = "persisted" /\ call.primary = "ok") =>
        /\ call.persist = "true"
        /\ Len(firestore.tickets) = 1
        /\ firestore.tickets[1].issue = IssueOf(call.built)
        /\ firestore.tickets[1].severity \in BucketNames
        /\ firestore.tickets[1].severity = CanonicalSeverity(call.built.severity)
        /\ firestore.tickets[1].doc.ticket = Str(call.text)
        /\ \E d \in firestore.issues : d.doc_id = IssueOf(call.built)

\* a ticket with no kb_match and an upper-case severity was stored in the
\* catch-all issue, sub-group Critical
C19_Witness ==
    /\ call.status = "persisted"
    /\ call.primary = "ok"
    /\ call.built.kb_match = PyNone
    /\ call.built.severity = Str(P_sev_CRITICAL)
    /\ Len(firestore.tickets) = 1
    /\ firestore.tickets[1].issue = S_NEW_ISSUES
    /\ firestore.tickets[1].severity = S_Critical
\* C20: a knowledge base that cannot be loaded (missing or corrupt file) gives
\* an empty KB and raises nothing; classify then succeeds with kb_match absent
\* and, the Gateway disabled, category "General", the default next_step and
\* the heuristic severity ("the app is slow today" gives Low).
C20_LoadFailureEmptyKb ==
    (call.status # "none" /\ call.kb_file \in {"missing", "corrupt"}) =>
        /\ call.status # "load_raised"
        /\ KB = <<>>
        /\ call.status # "raised"
        /\ Returned =>
              /\ call.result.kb_match = PyNone
              /\ call.result.category = Str(S_General)
              /\ call.result.next_step = Str(S_DefaultNextStep)
              /\ call.result.severity = Str(infer_severity(call.text))
              /\ call.text = T_slow => call.result.severity = Str(S_Low)
\* C21: the primary-store write of a persist call is all-or-nothing: no persist
\* call has upserted the metadata of issues/{issueId} while its ticket is
\* missing from that issue's severity sub-group.
C21_PrimaryWriteAtomic ==
    \A d \in firestore.issues :
        \E i \in DOMAIN firestore.tickets :
            /\ firestore.tickets[i].issue = d.doc_id
            /\ firestore.tickets[i].doc.ticket = Str(call.text)
====
